---- MODULE Spec2Model ----
(***************************************************************************)
(* finflow statement parsing: PDFTransactionParser.parse_pdfs / parse_pdf, *)
(* the TRANSACTION_PATTERNS registry and the field normalizers parse_date  *)
(* and parse_amount.                                                       *)
(*                                                                         *)
(* Strings the code inspects character by character (page text, captured   *)
(* groups, file names) are sequences of one-character strings.  An         *)
(* Optional[...] value is a sequence of length 0 (None) or 1.              *)
(***************************************************************************)
EXTENDS Integers, Sequences, FiniteSets, TLC

\* ------------------------------------------------------------------ bounds
MaxDocs == 2
MaxPages == 2
MaxRuns == 2

\* -------------------------------------------------------------- characters
Digit == {"0", "1", "2", "3", "4", "5", "6", "7", "8", "9"}
DigitSeq == <<"0", "1", "2", "3", "4", "5", "6", "7", "8", "9">>
UpperSeq == <<"A", "B", "C", "D", "E", "F", "G", "H", "I", "J", "K", "L", "M",
              "N", "O", "P", "Q", "R", "S", "T", "U", "V", "W", "X", "Y", "Z">>
LowerSeq == <<"a", "b", "c", "d", "e", "f", "g", "h", "i", "j", "k", "l", "m",
              "n", "o", "p", "q", "r", "s", "t", "u", "v", "w", "x", "y", "z">>
Upper == {UpperSeq[k] : k \in 1..Len(UpperSeq)}
Lower == {LowerSeq[k] : k \in 1..Len(LowerSeq)}
\* [A-Z0-9], [A-Za-z] and \s of the patterns
UpperOrDigit == Upper \cup Digit
Letter == Upper \cup Lower
Space == {" ", "\t", "\n", "\r", "\f"}

None == <<>>
Some(x) == <<x>>

Min(S) == CHOOSE x \in S : \A y \in S : x <= y
Max(S) == CHOOSE x \in S : \A y \in S : x >= y

DigitVal(c) == (CHOOSE k \in 1..Len(DigitSeq) : DigitSeq[k] = c) - 1

RECURSIVE NumVal(_)
\* int() of a string of decimal digits
NumVal(s) ==
    IF s = <<>> THEN 0
    ELSE 10 * NumVal(SubSeq(s, 1, Len(s) - 1)) + DigitVal(s[Len(s)])

AllIn(s, class) == \A k \in 1..Len(s) : s[k] \in class

\* ------------------------------------------------------------- page texts
\* SAMPLE_TEXT of tests/finflow/statement_parsing/test_transaction_patterns.py
SAMPLE_TEXT ==
    <<"0", "4", ".", "1", "2", ".", "2", "0", "2", "4", "\n", "0", "4", ".", "1", "2",
      ".", "2", "0", "2", "4", "L", "a", "s", "t", "s", "c", "h", "r", "i", "f", "t",
      " ", "/", "\n", "B", "e", "l", "a", "s", "t", "u", "n", "g", "\n", "7", "L", "2",
      "C", "1", "U", "7", "N", "2", "K", "R", "V", "\n", "5", "L", "Y", "N", "/", "3",
      "5", "7", "4", "2", "D", ".", "T", ".", "N", "E", "T", " ", "S", "e", "r", "v",
      "i", "c", "e", " ", "O", "H", "G", " ", "4", "0", "2", "5", "0", "5", "/", "1",
      "2", "9", "8", "0", "1", "/", "E", "U", "R", " ", "4", "8", ".", "4", "0", "\n",
      "E", "n", "d", "-", "t", "o", "-", "E", "n", "d", "-", "R", "e", "f", ".", ":",
      "\n", "1", "5", "0", "8", "0", "8", "\n", "C", "O", "R", "E", " ", "/", "M", "a",
      "n", "d", "a", "t", "s", "r", "e", "f", ".", ":", "\n", "4", "0", "2", "5", "0",
      "5", "\n", "G", "l", "ä", "u", "b", "i", "g", "e", "r", "-", "I", "D", ":", "\n",
      "D", "E", "9", "2", "Z", "Z", "Z", "0", "0", "0", "0", "0", "0", "8", "5", "7",
      "1", "0", "-", "4", "8", ",", "4", "0", "\n">>

\* A page in the layout the patterns are written for: a direct debit with
\* carriage returns and an impossible booking date (31.02.2024), a transfer,
\* and two more direct debits, the later one booked before the earlier one.
MIXED_TEXT ==
    <<"3", "1", ".", "0", "2", ".", "2", "0", "2", "4", "\r", "\n", "0", "5", ".", "1",
      "2", ".", "2", "0", "2", "4", "L", "a", "s", "t", "s", "c", "h", "r", "i", "f",
      "t", " ", "/", "\r", "\n", "B", "e", "l", "a", "s", "t", "u", "n", "g", "\r", "\n",
      "A", "1", "\r", "\n", "X", "/", "1", " ", "G", "y", "m", " ", "f", "e", "e", "-",
      "1", ".", "2", "3", "4", ",", "5", "6", "\n", "0", "2", ".", "1", "2", ".", "2",
      "0", "2", "4", "\n", "0", "2", ".", "1", "2", ".", "2", "0", "2", "4", "Ü", "b",
      "e", "r", "t", "r", "a", "g", " ", "/", "\n", "Ü", "b", "e", "r", "w", "e", "i",
      "s", "u", "n", "g", "\n", "T", "9", "\n", "K", "/", "7", " ", "M", "i", "e", "t",
      "e", "\n", "G", "l", "ä", "u", "b", "i", "g", "e", "r", "-", "I", "D", ":", "\n",
      "D", "E", "1", "2", "Z", "Z", "Z", "1", "2", "3", "4", "5", "6", "7", "8", "9",
      "0", "1", "-", "7", "0", "0", ",", "0", "0", "\n", "0", "4", ".", "1", "2", ".",
      "2", "0", "2", "4", "\n", "0", "4", ".", "1", "2", ".", "2", "0", "2", "4", "L",
      "a", "s", "t", "s", "c", "h", "r", "i", "f", "t", " ", "/", "\n", "B", "e", "l",
      "a", "s", "t", "u", "n", "g", "\n", "B", "2", "\n", "Y", "/", "2", "S", "t", "r",
      "o", "m", " ", "1", "2", ",", "0", "0", "\n", "0", "3", ".", "1", "2", ".", "2",
      "0", "2", "4", "\n", "0", "3", ".", "1", "2", ".", "2", "0", "2", "4", "L", "a",
      "s", "t", "s", "c", "h", "r", "i", "f", "t", " ", "/", "\n", "B", "e", "l", "a",
      "s", "t", "u", "n", "g", "\n", "C", "3", "\n", "Z", "/", "3", " ", "Z", "/", "4",
      " ", "G", "a", "s", "9", ",", "9", "9", "\n">>

\* What page.extract_text() can return: None, "" or a text.
PageTexts == <<None, Some(<<>>), Some(SAMPLE_TEXT), Some(MIXED_TEXT)>>
PageIds == 1..Len(PageTexts)
NoTextPage == CHOOSE p \in PageIds : PageTexts[p] = None
EmptyPage == CHOOSE p \in PageIds : PageTexts[p] = Some(<<>>)
SamplePage == CHOOSE p \in PageIds : PageTexts[p] = Some(SAMPLE_TEXT)
MixedPage == CHOOSE p \in PageIds : PageTexts[p] = Some(MIXED_TEXT)

\* ------------------------------------------------------- field normalizers
IsLeap(y) == (y % 4 = 0 /\ y % 100 # 0) \/ y % 400 = 0

DaysInMonth(y, m) ==
    IF m = 2 THEN (IF IsLeap(y) THEN 29 ELSE 28)
    ELSE IF m \in {4, 6, 9, 11} THEN 30 ELSE 31

\* The shape \d{2}\.\d{2}\.\d{4}, the only strings parse_date is called with
\* (groups 1 and 2 of a pattern match).
IsDateShaped(s) ==
    /\ Len(s) = 10
    /\ s[3] = "." /\ s[6] = "."
    /\ \A k \in {1, 2, 4, 5, 7, 8, 9, 10} : s[k] \in Digit

\* strptime(date_str, "%d.%m.%Y").date(), None on ValueError: a date is
\* <<year, month, day>>.
parse_date(date_str) ==
    IF ~IsDateShaped(date_str) THEN None
    ELSE LET d == NumVal(SubSeq(date_str, 1, 2))
             m == NumVal(SubSeq(date_str, 4, 5))
             y == NumVal(SubSeq(date_str, 7, 10))
         IN  IF y >= 1 /\ m \in 1..12 /\ d >= 1 /\ d <= DaysInMonth(y, m)
             THEN Some(<<y, m, d>>)
             ELSE None

RECURSIVE Remove(_, _)
\* str.replace(c, "")
Remove(s, c) ==
    IF s = <<>> THEN <<>>
    ELSE IF Head(s) = c THEN Remove(Tail(s), c)
    ELSE <<Head(s)>> \o Remove(Tail(s), c)

\* str.replace(c, d) for single characters
Replace(s, c, d) == [k \in 1..Len(s) |-> IF s[k] = c THEN d ELSE s[k]]

\* float(s) in hundredths; None where float() raises ValueError.  The
\* patterns capture amounts of exactly two fractional digits; a literal of
\* more than two is outside the hundredths the model counts in.
Float(s) ==
    LET neg == s # <<>> /\ s[1] = "-"
        body == IF s # <<>> /\ s[1] \in {"-", "+"} THEN Tail(s) ELSE s
        dots == {k \in 1..Len(body) : body[k] = "."}
        cut == IF dots = {} THEN Len(body) + 1 ELSE Min(dots)
        whole == SubSeq(body, 1, cut - 1)
        frac == SubSeq(body, cut + 1, Len(body))
        abs == 100 * NumVal(whole)
               + (IF Len(frac) = 0 THEN 0
                  ELSE IF Len(frac) = 1 THEN 10 * NumVal(frac)
                  ELSE NumVal(frac))
    IN  IF /\ AllIn(whole, Digit) /\ AllIn(frac, Digit)
           /\ Len(whole) + Len(frac) > 0
           /\ Len(frac) <= 2
        THEN Some(IF neg THEN 0 - abs ELSE abs)
        ELSE None

\* float(amount_str.replace(".", "").replace(",", ".")), None on ValueError
parse_amount(amount_str) == Float(Replace(Remove(amount_str, "."), ",", "."))

\* str.strip()
Strip(s) ==
    LET keep == {k \in 1..Len(s) : s[k] \notin Space}
    IN  IF keep = {} THEN <<>> ELSE SubSeq(s, Min(keep), Max(keep))

\* ------------------------------------------------------ pattern primitives
\* A sub-pattern applied to text t at index i yields the indices after its
\* possible matches, in the order the backtracking matcher tries them.
At(t, i) == IF i >= 1 /\ i <= Len(t) THEN t[i] ELSE ""

\* number of consecutive characters of the class from index i on
RECURSIVE Run(_, _, _)
Run(t, i, class) ==
    IF At(t, i) \notin class THEN 0 ELSE 1 + Run(t, i + 1, class)

\* a literal
Lit(t, i, lit) ==
    IF i + Len(lit) - 1 <= Len(t) /\ SubSeq(t, i, i + Len(lit) - 1) = lit
    THEN <<i + Len(lit)>> ELSE <<>>

\* \r?\n
Eol(t, i) ==
    IF At(t, i) = "\r" /\ At(t, i + 1) = "\n" THEN <<i + 2>>
    ELSE IF At(t, i) = "\n" THEN <<i + 1>>
    ELSE <<>>

\* class{n}
Exactly(t, i, class, n) ==
    IF Run(t, i, class) >= n THEN <<i + n>> ELSE <<>>

\* class+ (greedy): longest first
Plus(t, i, class) ==
    LET r == Run(t, i, class) IN [k \in 1..r |-> i + r + 1 - k]

\* \d{2}\.\d{2}\.\d{4}
DateEnds(t, i) ==
    IF i + 9 <= Len(t) /\ IsDateShaped(SubSeq(t, i, i + 9))
    THEN <<i + 10>> ELSE <<>>

RECURSIVE Flatten(_)
Flatten(ss) == IF ss = <<>> THEN <<>> ELSE Head(ss) \o Flatten(Tail(ss))

\* one iteration of (?:[A-Z0-9]+/\d+ ?)
CodeEnds(t, i) ==
    LET ids == Plus(t, i, UpperOrDigit)
        afterNum(e) ==
            IF At(t, e) = " " THEN <<e + 1, e>> ELSE <<e>>
        afterId(e) ==
            IF At(t, e) = "/"
            THEN Flatten([k \in 1..Len(Plus(t, e + 1, Digit)) |->
                            afterNum(Plus(t, e + 1, Digit)[k])])
            ELSE <<>>
    IN  Flatten([k \in 1..Len(ids) |-> afterId(ids[k])])

RECURSIVE CodesEnds(_, _)
\* (?:[A-Z0-9]+/\d+ ?)+ (greedy): after each iteration, more iterations are
\* tried before stopping there
CodesEnds(t, i) ==
    LET one == CodeEnds(t, i)
    IN  Flatten([k \in 1..Len(one) |-> CodesEnds(t, one[k]) \o <<one[k]>>])

\* (?:\.\d{3})* (greedy)
RECURSIVE GroupCount(_, _)
GroupCount(t, i) ==
    IF At(t, i) = "." /\ Run(t, i + 1, Digit) >= 3
    THEN 1 + GroupCount(t, i + 4) ELSE 0

GroupsEnds(t, i) ==
    LET n == GroupCount(t, i)
    IN  [k \in 1..(n + 1) |-> i + 4 * (n + 1 - k)]

\* -?\d{1,3}(?:\.\d{3})*,\d{2}
AmountEnds(t, i) ==
    LET start == IF At(t, i) = "-" THEN <<i + 1, i>> ELSE <<i>>
        tail(e) ==
            IF At(t, e) = "," /\ Run(t, e + 1, Digit) >= 2
            THEN <<e + 3>> ELSE <<>>
        groups(e) ==
            Flatten([k \in 1..Len(GroupsEnds(t, e)) |-> tail(GroupsEnds(t, e)[k])])
        digits(s) ==
            LET r == Min({3, Run(t, s, Digit)})
            IN  Flatten([k \in 1..r |-> groups(s + r + 1 - k)])
    IN  Flatten([k \in 1..Len(start) |-> digits(start[k])])

\* [A-Za-z][\s\S]* (greedy): longest first
DescriptionEndsGreedy(t, i) ==
    IF At(t, i) \in Letter
    THEN [k \in 1..(Len(t) + 1 - i) |-> Len(t) + 2 - k]
    ELSE <<>>

\* [A-Za-z][\s\S]*? (lazy): shortest first
DescriptionEnds(t, i) ==
    IF At(t, i) \in Letter
    THEN [k \in 1..(Len(t) + 1 - i) |-> i + k]
    ELSE <<>>

\* \s*[\s\S]+? : greedy white space, then lazily at least one character
LongDescriptionEnds(t, i) ==
    LET r == Run(t, i, Space)
    IN  Flatten([k \in 1..(r + 1) |->
                   [j \in 1..(Len(t) - (i + r + 1 - k)) |-> i + r + 1 - k + j]])

\* the first of the alternatives `ends` from which rest(_) matches
RECURSIVE FirstIn(_, _, _, _)
\* ... among ends[lo..hi], searched in order (by halves, to keep the
\* evaluation shallow)
FirstIn(ends, rest(_), lo, hi) ==
    IF lo > hi THEN <<>>
    ELSE IF lo = hi THEN rest(ends[lo])
    ELSE LET mid == (lo + hi) \div 2
             r == FirstIn(ends, rest, lo, mid)
         IN  IF r # <<>> THEN r ELSE FirstIn(ends, rest, mid + 1, hi)

First(ends, rest(_)) == FirstIn(ends, rest, 1, Len(ends))

\* a chain of sub-patterns with a single way to match each
RECURSIVE Chain(_, _, _)
Chain(t, i, steps) ==
    IF steps = <<>> THEN <<i>>
    ELSE LET h == Head(steps)
             e == IF h.kind = "eol" THEN Eol(t, i)
                  ELSE IF h.kind = "date" THEN DateEnds(t, i)
                  ELSE IF h.kind = "lit" THEN Lit(t, i, h.lit)
                  ELSE Exactly(t, i, Digit, h.n)
         IN  IF e = <<>> THEN <<>> ELSE Chain(t, e[1], Tail(steps))

\* ------------------------------------------------------- pattern registry
\* TransactionType (transaction_types.py)
TransactionType == {"DIRECT_DEBIT", "CARD_TRANSACTION", "TRANSFER"}

DateStep == [kind |-> "date"]
EolStep == [kind |-> "eol"]
LitStep(s) == [kind |-> "lit", lit |-> s]
DigitsStep(n) == [kind |-> "digits", n |-> n]

\* a match: its six groups, where it starts and the index after it
Match(t, i, b1, e1, b2, e2, b3, e3, b4, e4, b5, e5, b6, e6) ==
    [groups |-> <<SubSeq(t, b1, e1 - 1), SubSeq(t, b2, e2 - 1),
                  SubSeq(t, b3, e3 - 1), SubSeq(t, b4, e4 - 1),
                  SubSeq(t, b5, e5 - 1), SubSeq(t, b6, e6 - 1)>>,
     start |-> i, end |-> e6]

\* TRANSACTION_PATTERNS[DIRECT_DEBIT][0] matched at index i: <<>> or <<match>>
DirectDebitAt(t, i) ==
    LET e1 == Chain(t, i, <<DateStep>>)
        a == IF e1 = <<>> THEN <<>> ELSE Chain(t, e1[1], <<EolStep>>)
        e2 == IF a = <<>> THEN <<>> ELSE Chain(t, a[1], <<DateStep>>)
        b == IF e2 = <<>> THEN <<>>
             ELSE Chain(t, e2[1],
                        <<LitStep(<<"L", "a", "s", "t", "s", "c", "h", "r", "i", "f", "t", " ", "/">>),
                          EolStep,
                          LitStep(<<"B", "e", "l", "a", "s", "t", "u", "n", "g">>),
                          EolStep>>)
    IN  IF b = <<>> THEN <<>>
        ELSE First(Plus(t, b[1], UpperOrDigit), LAMBDA e3 :
               LET c == Eol(t, e3)
               IN  IF c = <<>> THEN <<>>
                   ELSE First(CodesEnds(t, c[1]), LAMBDA e4 :
                          First(DescriptionEnds(t, e4), LAMBDA e5 :
                            LET e6 == AmountEnds(t, e5)
                            IN  IF e6 = <<>> THEN <<>>
                                ELSE <<Match(t, i, i, e1[1], a[1], e2[1], b[1], e3,
                                             c[1], e4, e4, e5, e5, e6[1])>>)))

\* TRANSACTION_PATTERNS[TRANSFER][0] matched at index i: <<>> or <<match>>
TransferAt(t, i) ==
    LET e1 == Chain(t, i, <<DateStep>>)
        a == IF e1 = <<>> THEN <<>> ELSE Chain(t, e1[1], <<LitStep(<<"\n">>)>>)
        e2 == IF a = <<>> THEN <<>> ELSE Chain(t, a[1], <<DateStep>>)
        b == IF e2 = <<>> THEN <<>>
             ELSE Chain(t, e2[1],
                        <<LitStep(<<"Ü", "b", "e", "r", "t", "r", "a", "g", " ", "/">>),
                          LitStep(<<"\n">>),
                          LitStep(<<"Ü", "b", "e", "r", "w", "e", "i", "s", "u", "n", "g">>),
                          LitStep(<<"\n">>)>>)
    IN  IF b = <<>> THEN <<>>
        ELSE First(Plus(t, b[1], UpperOrDigit), LAMBDA e3 :
               LET c == Lit(t, e3, <<"\n">>)
               IN  IF c = <<>> THEN <<>>
                   ELSE First(CodesEnds(t, c[1]), LAMBDA e4 :
                          First(LongDescriptionEnds(t, e4), LAMBDA e5 :
                            LET p == Chain(t, e5,
                                       <<LitStep(<<"\n", "G", "l", "ä", "u", "b", "i", "g", "e",
                                                   "r", "-", "I", "D", ":", "\n", "D", "E">>),
                                         DigitsStep(2),
                                         LitStep(<<"Z", "Z", "Z">>),
                                         DigitsStep(11)>>)
                                e6 == IF p = <<>> THEN <<>> ELSE AmountEnds(t, p[1])
                            IN  IF e6 = <<>> THEN <<>>
                                ELSE <<Match(t, i, i, e1[1], a[1], e2[1], b[1], e3,
                                             c[1], e4, e4, e5, p[1], e6[1])>>)))

\* TRANSACTION_PATTERNS, in declaration order: a pattern is named by its type
\* and its place in the type's list
TRANSACTION_PATTERNS ==
    <<[type |-> "DIRECT_DEBIT", patterns |-> <<"DIRECT_DEBIT[0]">>],
      [type |-> "TRANSFER", patterns |-> <<"TRANSFER[0]">>]>>

Patterns == {"DIRECT_DEBIT[0]", "TRANSFER[0]"}

\* pattern.match(t, i)
MatchAt(pattern, t, i) ==
    IF pattern = "DIRECT_DEBIT[0]" THEN DirectDebitAt(t, i) ELSE TransferAt(t, i)

RECURSIVE Scan(_, _, _, _)
Scan(pattern, t, starts, pos) ==
    LET later == {i \in starts : i >= pos}
    IN  IF later = {} THEN <<>>
        ELSE LET m == MatchAt(pattern, t, Min(later))[1]
             IN  <<m>> \o Scan(pattern, t, starts, m.end)

\* the non-overlapping matches of the pattern in t, leftmost first
FindAllMatches(pattern, t) ==
    Scan(pattern, t, {i \in 1..Len(t) : MatchAt(pattern, t, i) # <<>>}, 1)

\* FindAllMatches for every pattern and every page text, computed once
MatchTable ==
    [pattern \in Patterns |->
        [p \in PageIds |->
            IF PageTexts[p] = None THEN <<>>
            ELSE FindAllMatches(pattern, PageTexts[p][1])]]

\* the group tuples of matches
Groups(matches) == [k \in 1..Len(matches) |-> matches[k].groups]

\* pattern.findall(text) on the text of page p
findall(pattern, p) == Groups(MatchTable[pattern][p])

\* ------------------------------------------------------------- data frames
COL_BOOKING_DATE == "Booking Date"
COL_VALUE_DATE == "Value Date"
COL_TRANSACTION_ID == "Transaction ID"
COL_CODE == "Code"
COL_DESCRIPTION == "Description"
COL_AMOUNT == "Amount"

\* the keys of the dict parse_pdf appends, in insertion order
RecordKeys ==
    <<COL_BOOKING_DATE, COL_VALUE_DATE, COL_TRANSACTION_ID, COL_CODE,
      COL_DESCRIPTION, COL_AMOUNT>>

\* pd.DataFrame(list of dicts); pd.DataFrame() is DataFrame(<<>>)
DataFrame(list) ==
    [columns |-> IF list = <<>> THEN <<>> ELSE RecordKeys, rows |-> list]

\* df.empty
Empty(df) == Len(df.rows) = 0 \/ Len(df.columns) = 0

\* pd.concat(dfs, ignore_index=True) of frames with the same columns
Concat(dfs) ==
    [columns |-> IF dfs = <<>> THEN <<>> ELSE dfs[1].columns,
     rows |-> Flatten([k \in 1..Len(dfs) |-> dfs[k].rows])]

\* df.to_csv(path, index=False): the header line and one line of cells per row
ToCsv(df) ==
    [header |-> df.columns,
     lines |-> [k \in 1..Len(df.rows) |->
                  [c \in 1..Len(df.columns) |-> df.rows[k][df.columns[c]]]]]

\* a <= b for dates <<year, month, day>>
DateLE(a, b) ==
    \/ a[1] < b[1]
    \/ a[1] = b[1] /\ a[2] < b[2]
    \/ a[1] = b[1] /\ a[2] = b[2] /\ a[3] <= b[3]

RECURSIVE Ascending(_, _)
\* the orders in which the indices S of keys can come out sorted ascending
Ascending(keys, S) ==
    IF S = {} THEN {<<>>}
    ELSE LET least == {i \in S : \A j \in S : DateLE(keys[i][1], keys[j][1])}
         IN  UNION {{<<i>> \o o : o \in Ascending(keys, S \ {i})} : i \in least}

\* the indices of S in ascending order
RECURSIVE InOrder(_)
InOrder(S) == IF S = {} THEN <<>> ELSE <<Min(S)>> \o InOrder(S \ {Min(S)})

\* sort_values without inplace=True: the frame keeps its order
SortOrdersNotInPlace(keys) == {[k \in 1..Len(keys) |-> k]}

\* df.sort_values(by=column) with its defaults kind="quicksort",
\* na_position="last": the possible row orders.  The rows without a key keep
\* their order and come last; the others are sorted by a sort pandas documents
\* as not stable, so rows with equal keys can come out in any order.
SortOrders(keys) ==
    LET nulls == {i \in 1..Len(keys) : keys[i] = None}
    IN  {o \o InOrder(nulls) : o \in Ascending(keys, (1..Len(keys)) \ nulls)}

\* ------------------------------------------------------------- parse_pdf
\* logger calls: level, event, file name and the number the message carries
LogEntry(level, event, file, n) ==
    [level |-> level, event |-> event, file |-> file, n |-> n]

\* TRANSACTION_PATTERNS.get(transaction_type, [])
PatternsFor(type) ==
    LET at == {k \in 1..Len(TRANSACTION_PATTERNS) : TRANSACTION_PATTERNS[k].type = type}
    IN  IF at = {} THEN <<>> ELSE TRANSACTION_PATTERNS[Min(at)].patterns

\* pattern_items that ignores the requested type
pattern_items_unfiltered(transaction_type) ==
    Flatten([t \in 1..Len(TRANSACTION_PATTERNS) |->
        [k \in 1..Len(TRANSACTION_PATTERNS[t].patterns) |->
            <<TRANSACTION_PATTERNS[t].type, TRANSACTION_PATTERNS[t].patterns[k]>>]])

\* pattern_items of parse_pdf: (type, pattern) pairs
pattern_items(transaction_type) ==
    IF transaction_type # None
    THEN [k \in 1..Len(PatternsFor(transaction_type[1])) |->
            <<transaction_type[1], PatternsFor(transaction_type[1])[k]>>]
    ELSE Flatten([t \in 1..Len(TRANSACTION_PATTERNS) |->
            [k \in 1..Len(TRANSACTION_PATTERNS[t].patterns) |->
                <<TRANSACTION_PATTERNS[t].type, TRANSACTION_PATTERNS[t].patterns[k]>>]])

\* the dict appended for one match
Record(match) ==
    (COL_BOOKING_DATE :> parse_date(match[1]))
    @@ (COL_VALUE_DATE :> parse_date(match[2]))
    @@ (COL_TRANSACTION_ID :> match[3])
    @@ (COL_CODE :> match[4])
    @@ (COL_DESCRIPTION :> Strip(match[5]))
    @@ (COL_AMOUNT :> parse_amount(match[6]))

\* a match whose booking date does not parse appends nothing
RecordsOfParsedOnly(matches) ==
    SelectSeq([m \in 1..Len(matches) |-> Record(matches[m])],
              LAMBDA r : r[COL_BOOKING_DATE] # None)

\* the dicts appended for the matches of one pattern
Records(matches) == [m \in 1..Len(matches) |-> Record(matches[m])]

\* the records of one page with text: every pattern of items, every match
PageRecords(p, items) ==
    Flatten([k \in 1..Len(items) |-> Records(findall(items[k][2], p))])

RECURSIVE PageLoopBreak(_, _, _, _, _)
\* break instead of continue at a page without text
PageLoopBreak(pages, page_index, filename, transaction_type, acc) ==
    IF page_index >= Len(pages) THEN acc
    ELSE LET text == PageTexts[pages[page_index + 1]]
         IN  IF text = None \/ text[1] = <<>>
             THEN [acc EXCEPT !.log = Append(@,
                      LogEntry("WARNING", "no extractable text", filename,
                               page_index + 1))]
             ELSE PageLoopBreak(pages, page_index + 1, filename, transaction_type,
                      [acc EXCEPT !.transaction_list =
                          @ \o PageRecords(pages[page_index + 1],
                                           pattern_items(transaction_type))])

RECURSIVE PageLoop(_, _, _, _, _)
\* the loop over reader.pages from page_index on: the transaction_list and
\* the warnings it adds to acc
PageLoop(pages, page_index, filename, transaction_type, acc) ==
    IF page_index >= Len(pages) THEN acc
    ELSE LET text == PageTexts[pages[page_index + 1]]
         IN  IF text = None \/ text[1] = <<>>
             THEN PageLoop(pages, page_index + 1, filename, transaction_type,
                      [acc EXCEPT !.log = Append(@,
                          LogEntry("WARNING", "no extractable text", filename,
                                   page_index + 1))])
             ELSE PageLoop(pages, page_index + 1, filename, transaction_type,
                      [acc EXCEPT !.transaction_list =
                          @ \o PageRecords(pages[page_index + 1],
                                           pattern_items(transaction_type))])

\* what parse_pdf returns and logs once the loop has ended
Returned(out, filename) ==
    [df |-> DataFrame(out.transaction_list),
     log |-> Append(out.log,
                    LogEntry("INFO", "Parsed", filename, Len(out.transaction_list)))]

\* parse_pdf of a readable document: the frame it returns and what it logs
parse_pdf(pages, filename, transaction_type) ==
    Returned(PageLoop(pages, 0, filename, transaction_type,
                      [transaction_list |-> <<>>, log |-> <<>>]),
             filename)

\* ----------------------------------------------------------- source folder
\* str.lower()
LowerCase(s) ==
    [k \in 1..Len(s) |->
        IF s[k] \in Upper
        THEN LowerSeq[CHOOSE j \in 1..Len(UpperSeq) : UpperSeq[j] = s[k]]
        ELSE s[k]]

\* str.endswith(suffix)
EndsWith(s, suffix) ==
    Len(s) >= Len(suffix) /\ SubSeq(s, Len(s) - Len(suffix) + 1, Len(s)) = suffix

\* filename.lower().endswith(".pdf")
IsPdf(filename) == EndsWith(LowerCase(filename), <<".", "p", "d", "f">>)

\* a file PdfReader can read, with the texts of its pages, or one it cannot
Document(pages) == [readable |-> TRUE, pages |-> pages]
Unreadable == [readable |-> FALSE, pages |-> <<>>]

\* the page sequences of up to n pages
PageSeqs(n) == UNION {[1..k -> PageIds] : k \in 0..n}

FileNames ==
    <<<<"a", ".", "p", "d", "f">>,
      <<"B", ".", "P", "D", "F">>,
      <<"n", "o", "t", "e", "s", ".", "t", "x", "t">>>>

\* statements used to fill folders of several files: the sample page; a page
\* without text followed by the mixed page; a scan without any text
Statements ==
    {Document(<<SamplePage>>), Document(<<EmptyPage, MixedPage>>),
     Document(<<NoTextPage>>), Unreadable}

\* the folders a run is started on: one statement of any pages, or up to
\* MaxDocs files, of which the one that is no PDF is not a statement
Folders ==
    {(FileNames[1] :> Document(pages)) : pages \in PageSeqs(MaxPages)}
    \cup
    UNION {{f \in [{FileNames[k] : k \in ks} -> Statements] :
                \A name \in DOMAIN f : ~IsPdf(name) => f[name] = Unreadable}
           : ks \in {K \in SUBSET (1..Len(FileNames)) : Cardinality(K) <= MaxDocs}}

\* the orders os.listdir can return the names in
Listings(names) ==
    {l \in [1..Cardinality(names) -> names] : \A n \in names : \E k \in DOMAIN l : l[k] = n}

\* ------------------------------------------------------------------- state
VARIABLES
    folder,            \* the files of self.source_folder
    transaction_type,  \* argument of parse_pdfs: None or Some(type)
    output_csv,        \* argument of parse_pdfs: whether a CSV path is given
    pc,                \* where the run is
    run,               \* number of calls of parse_pdfs so far
    listing,           \* what os.listdir returned
    idx,               \* the file of listing the loop is at
    pdf_path,          \* the file last handed to parse_pdf
    df_pdf,            \* None or Some(what the last parse_pdf returned)
    all_dfs,           \* the frames collected by the loop
    transactions,      \* self.transactions
    log,               \* the logger calls of this run
    csv,               \* None or Some(the file at output_csv)
    writes,            \* number of writes of the file in this run
    returned           \* None or Some(listing and result of the previous completed run)

vars ==
    <<folder, transaction_type, output_csv, pc, run, listing, idx, pdf_path,
      df_pdf, all_dfs, transactions, log, csv, writes, returned>>

Init ==
    /\ folder \in Folders
    /\ transaction_type \in {None} \cup {Some(t) : t \in TransactionType}
    /\ output_csv \in BOOLEAN
    /\ pc = "Idle"
    /\ run = 0
    /\ listing = <<>>
    /\ idx = 0
    /\ pdf_path = <<>>
    /\ df_pdf = None
    /\ all_dfs = <<>>
    /\ transactions = DataFrame(<<>>)
    /\ log = <<>>
    /\ csv = None
    /\ writes = 0
    /\ returned = None

\* parse_pdfs is called (again, after it returned or raised): all_dfs = []
Call ==
    /\ pc \in {"Idle", "Done", "Raised"}
    /\ run < MaxRuns
    /\ run' = run + 1
    /\ pc' = "Enumerating"
    /\ all_dfs' = <<>>
    /\ listing' = <<>>
    /\ idx' = 0
    /\ df_pdf' = None
    /\ pdf_path' = <<>>
    /\ log' = <<>>
    /\ writes' = 0
    /\ returned' = IF pc = "Done"
                   THEN Some([listing |-> listing, transactions |-> transactions])
                   ELSE returned
    /\ UNCHANGED <<folder, transaction_type, output_csv, transactions, csv>>

\* os.listdir(self.source_folder): the names, in arbitrary order
ListDir ==
    /\ pc = "Enumerating"
    /\ listing' \in Listings(DOMAIN folder)
    /\ idx' = 1
    /\ pc' = "ExtractingDocuments"
    /\ UNCHANGED <<folder, transaction_type, output_csv, run, pdf_path, df_pdf,
                   all_dfs, transactions, log, csv, writes, returned>>

\* a file whose name does not end in .pdf is passed over
SkipFile ==
    /\ pc = "ExtractingDocuments"
    /\ idx <= Len(listing)
    /\ ~IsPdf(listing[idx])
    /\ idx' = idx + 1
    /\ UNCHANGED <<folder, transaction_type, output_csv, pc, run, listing,
                   pdf_path, df_pdf, all_dfs, transactions, log, csv, writes,
                   returned>>

\* all_dfs = [df_pdf] instead of all_dfs.append(df_pdf)
ParseDocumentKeepLast ==
    /\ pc = "ExtractingDocuments"
    /\ idx <= Len(listing)
    /\ IsPdf(listing[idx])
    /\ folder[listing[idx]].readable
    /\ \E res \in {parse_pdf(folder[listing[idx]].pages, listing[idx], transaction_type)} :
           /\ df_pdf' = Some(res.df)
           /\ log' = log \o res.log
           /\ all_dfs' = IF Empty(res.df) THEN all_dfs ELSE <<res.df>>
    /\ pdf_path' = listing[idx]
    /\ idx' = idx + 1
    /\ UNCHANGED <<folder, transaction_type, output_csv, pc, run, listing,
                   transactions, csv, writes, returned>>

\* to_csv inside the loop: the file is written as each document is parsed
ParseDocumentStreaming ==
    /\ pc = "ExtractingDocuments"
    /\ idx <= Len(listing)
    /\ IsPdf(listing[idx])
    /\ folder[listing[idx]].readable
    /\ \E res \in {parse_pdf(folder[listing[idx]].pages, listing[idx], transaction_type)} :
           /\ df_pdf' = Some(res.df)
           /\ log' = log \o res.log
           /\ all_dfs' = IF Empty(res.df) THEN all_dfs ELSE Append(all_dfs, res.df)
           /\ csv' = IF output_csv THEN Some(ToCsv(res.df)) ELSE csv
    /\ pdf_path' = listing[idx]
    /\ idx' = idx + 1
    /\ UNCHANGED <<folder, transaction_type, output_csv, pc, run, listing,
                   transactions, writes, returned>>

\* parse_pdf of the next PDF returns; a frame that is not empty is collected
ParseDocument ==
    /\ pc = "ExtractingDocuments"
    /\ idx <= Len(listing)
    /\ IsPdf(listing[idx])
    /\ folder[listing[idx]].readable
    /\ \E res \in {parse_pdf(folder[listing[idx]].pages, listing[idx], transaction_type)} :
           /\ df_pdf' = Some(res.df)
           /\ log' = log \o res.log
           /\ all_dfs' = IF Empty(res.df) THEN all_dfs ELSE Append(all_dfs, res.df)
    /\ pdf_path' = listing[idx]
    /\ idx' = idx + 1
    /\ UNCHANGED <<folder, transaction_type, output_csv, pc, run, listing,
                   transactions, csv, writes, returned>>

\* PdfReader(pdf_path) raises: nothing catches it, parse_pdfs ends with it
ReadError ==
    /\ pc = "ExtractingDocuments"
    /\ idx <= Len(listing)
    /\ IsPdf(listing[idx])
    /\ ~folder[listing[idx]].readable
    /\ pdf_path' = listing[idx]
    /\ df_pdf' = None
    /\ pc' = "Raised"
    /\ UNCHANGED <<folder, transaction_type, output_csv, run, listing, idx,
                   all_dfs, transactions, log, csv, writes, returned>>

\* the loop over the names ends
EndLoop ==
    /\ pc = "ExtractingDocuments"
    /\ idx > Len(listing)
    /\ pc' = "Sorting"
    /\ UNCHANGED <<folder, transaction_type, output_csv, run, listing, idx,
                   pdf_path, df_pdf, all_dfs, transactions, log, csv, writes,
                   returned>>

AfterSort == IF output_csv THEN "Persisting" ELSE "Done"

\* all_dfs is not empty: concat and sort_values by booking date
ConcatSort ==
    /\ pc = "Sorting"
    /\ all_dfs # <<>>
    /\ LET df == Concat(all_dfs)
           keys == [k \in 1..Len(df.rows) |-> df.rows[k][COL_BOOKING_DATE]]
       IN  /\ \E order \in SortOrders(keys) :
                transactions' = [df EXCEPT !.rows =
                                    [k \in 1..Len(order) |-> df.rows[order[k]]]]
           /\ log' = Append(log, LogEntry("INFO", "Total", <<>>, Len(df.rows)))
    /\ pc' = AfterSort
    /\ UNCHANGED <<folder, transaction_type, output_csv, run, listing, idx,
                   pdf_path, df_pdf, all_dfs, csv, writes, returned>>

\* all_dfs is empty: self.transactions = pd.DataFrame()
NoData ==
    /\ pc = "Sorting"
    /\ all_dfs = <<>>
    /\ transactions' = DataFrame(<<>>)
    /\ log' = Append(log, LogEntry("INFO", "Total", <<>>, 0))
    /\ pc' = AfterSort
    /\ UNCHANGED <<folder, transaction_type, output_csv, run, listing, idx,
                   pdf_path, df_pdf, all_dfs, csv, writes, returned>>

\* self.transactions.to_csv(output_csv, index=False), then the run returns
WriteCsv ==
    /\ pc = "Persisting"
    /\ csv' = Some(ToCsv(transactions))
    /\ writes' = writes + 1
    /\ log' = Append(log, LogEntry("INFO", "Saved", <<>>, Len(transactions.rows)))
    /\ pc' = "Done"
    /\ UNCHANGED <<folder, transaction_type, output_csv, run, listing, idx,
                   pdf_path, df_pdf, all_dfs, transactions, returned>>

Next ==
    \/ Call
    \/ ListDir
    \/ SkipFile
    \/ ParseDocument
    \/ ReadError
    \/ EndLoop
    \/ ConcatSort
    \/ NoData
    \/ WriteCsv

Spec == Init /\ [][Next]_vars

TypeOK ==
    /\ pc \in {"Idle", "Enumerating", "ExtractingDocuments", "Sorting",
               "Persisting", "Done", "Raised"}
    /\ run \in 0..MaxRuns
    /\ writes \in 0..1

\* ------------------------------------------------------------- properties
\* the rows in the order the loop collected them
ArrivalRows == Concat(all_dfs).rows

BookingDates(rows) == [k \in 1..Len(rows) |-> rows[k][COL_BOOKING_DATE]]

\* the pages of the document last handed to parse_pdf
ParsedPages == folder[pdf_path].pages

HasText(p) == PageTexts[p] # None /\ PageTexts[p][1] # <<>>

\* the patterns registered for the requested type; all of them without one
Selected(type) ==
    IF type = None THEN Patterns
    ELSE UNION {{TRANSACTION_PATTERNS[k].patterns[j] :
                    j \in 1..Len(TRANSACTION_PATTERNS[k].patterns)} :
                k \in {t \in 1..Len(TRANSACTION_PATTERNS) :
                          TRANSACTION_PATTERNS[t].type = type[1]}}

\* the place of a pattern in the registry, counting through the types in
\* declaration order
RegistryIndex(pattern) ==
    CHOOSE n \in 1..Len(pattern_items(None)) : pattern_items(None)[n][2] = pattern

PatternAt(n) == pattern_items(None)[n][2]

\* every match of every selected pattern on every page with text:
\* <<page number, registry index, number of the match in the page>>
Sites(pages, type) ==
    UNION {{<<k, RegistryIndex(pattern), m>> :
                m \in 1..Len(MatchTable[pattern][pages[k]])} :
           k \in {j \in 1..Len(pages) : HasText(pages[j])},
           pattern \in Selected(type)}

SiteMatch(pages, site) == MatchTable[PatternAt(site[2])][pages[site[1]]][site[3]]

SiteBefore(u, v) ==
    \/ u[1] < v[1]
    \/ u[1] = v[1] /\ u[2] < v[2]
    \/ u[1] = v[1] /\ u[2] = v[2] /\ u[3] < v[3]

\* how often x occurs in the sequence
Count(seq, x) == Cardinality({k \in 1..Len(seq) : seq[k] = x})

SameBag(a, b) ==
    /\ Len(a) = Len(b)
    /\ \A k \in 1..Len(a) : Count(a, a[k]) = Count(b, a[k])

RemoveAt(seq, k) == SubSeq(seq, 1, k - 1) \o SubSeq(seq, k + 1, Len(seq))

StartsWith(s, prefix) ==
    Len(s) >= Len(prefix) /\ SubSeq(s, 1, Len(prefix)) = prefix

\* C1: in the dataset parse_pdfs returns, a record with a booking date never
\* comes before a record with an earlier booking date.
C1_BookingDatesAscend ==
    pc = "Done" =>
        \A i, j \in 1..Len(transactions.rows) :
            (/\ i < j
             /\ transactions.rows[i][COL_BOOKING_DATE] # None
             /\ transactions.rows[j][COL_BOOKING_DATE] # None)
            => DateLE(transactions.rows[i][COL_BOOKING_DATE][1],
                      transactions.rows[j][COL_BOOKING_DATE][1])

\* a run has returned whose records did not arrive in booking date order
C1_Witness ==
    /\ pc = "Done"
    /\ Len(transactions.rows) = Len(ArrivalRows)
    /\ \E i, j \in 1..Len(ArrivalRows) :
          /\ i < j
          /\ ArrivalRows[i][COL_BOOKING_DATE] # None
          /\ ArrivalRows[j][COL_BOOKING_DATE] # None
          /\ ~DateLE(ArrivalRows[i][COL_BOOKING_DATE][1],
                     ArrivalRows[j][COL_BOOKING_DATE][1])

\* the order a stable sort by booking date, undated rows last, gives
StableOrder(keys) ==
    CHOOSE o \in SortOrders(keys) :
        \A a, b \in 1..Len(o) : (a < b /\ keys[o[a]] = keys[o[b]]) => o[a] < o[b]

\* C2: the sort of parse_pdfs is stable: records with equal booking dates
\* are returned in the order they arrived in.
C2_SortIsStable ==
    (pc = "Done" /\ all_dfs # <<>>) =>
        LET o == StableOrder(BookingDates(ArrivalRows))
        IN  transactions.rows = [k \in 1..Len(o) |-> ArrivalRows[o[k]]]

\* the PDFs of the folder that PdfReader cannot read
FailedDocuments == {name \in DOMAIN folder : IsPdf(name) /\ ~folder[name].readable}

\* C3: a document that cannot be read does not abort the batch: the run
\* returns, with the records of the other documents, and reports the
\* documents that failed.
C3_ReadFailureDoesNotAbort ==
    /\ pc # "Raised"
    /\ pc = "Done" =>
          /\ \A name \in FailedDocuments :
                \E k \in 1..Len(log) : log[k].level # "INFO" /\ log[k].file = name
          /\ \A name \in DOMAIN folder :
                (IsPdf(name) /\ folder[name].readable) =>
                    \A r \in {parse_pdf(folder[name].pages, name, transaction_type).df.rows[k] :
                                k \in 1..Len(parse_pdf(folder[name].pages, name,
                                                       transaction_type).df.rows)} :
                        Count(transactions.rows, r) >= 1

\* C4: every match of a selected pattern gives exactly one record of
\* parse_pdf; a date or amount that does not parse is None in it and the
\* other fields are taken from the match; only a document that cannot be
\* read makes the run raise.
C4_EveryMatchGivesARecord ==
    /\ pc = "Raised" => ~folder[pdf_path].readable
    /\ LET r == Record(<<<<"3", "1", ".", "0", "2", ".", "2", "0", "2", "4">>,
                         <<"0", "1", ".", "0", "3", ".", "2", "0", "2", "4">>,
                         <<"A", "1">>, <<"Z", "/", "1">>, <<" ", "G", "a", "s", " ">>,
                         <<"1", "2", ",", "3", "x">>>>)
       IN  /\ r[COL_BOOKING_DATE] = None
           /\ r[COL_VALUE_DATE] = Some(<<2024, 3, 1>>)
           /\ r[COL_TRANSACTION_ID] = <<"A", "1">>
           /\ r[COL_CODE] = <<"Z", "/", "1">>
           /\ r[COL_DESCRIPTION] = <<"G", "a", "s">>
           /\ r[COL_AMOUNT] = None
    /\ df_pdf # None =>
          LET rows == df_pdf[1].rows
              sites == Sites(ParsedPages, transaction_type)
          IN  /\ Len(rows) = Cardinality(sites)
              /\ \A site \in sites :
                    \E k \in 1..Len(rows) :
                        LET g == SiteMatch(ParsedPages, site).groups
                        IN  /\ rows[k][COL_TRANSACTION_ID] = g[3]
                            /\ rows[k][COL_CODE] = g[4]
                            /\ rows[k][COL_DESCRIPTION] = Strip(g[5])
                            /\ rows[k][COL_BOOKING_DATE] = parse_date(g[1])
                            /\ rows[k][COL_VALUE_DATE] = parse_date(g[2])
                            /\ rows[k][COL_AMOUNT] = parse_amount(g[6])
                            /\ DOMAIN rows[k] = {RecordKeys[c] : c \in 1..Len(RecordKeys)}

\* parse_pdf returned a record without booking date whose other fields are there
C4_Witness ==
    /\ df_pdf # None
    /\ \E k \in 1..Len(df_pdf[1].rows) :
          /\ df_pdf[1].rows[k][COL_BOOKING_DATE] = None
          /\ df_pdf[1].rows[k][COL_VALUE_DATE] # None
          /\ df_pdf[1].rows[k][COL_AMOUNT] # None
          /\ df_pdf[1].rows[k][COL_TRANSACTION_ID] # <<>>
          /\ k < Len(df_pdf[1].rows)

\* the warnings of this run about the document last parsed
PageWarnings ==
    SelectSeq(log, LAMBDA e : e.level = "WARNING" /\ e.file = pdf_path)

\* C5: a page without text gives no record and exactly one warning, which
\* names the document and the page counted from 1, and the pages after it
\* are still extracted: the records are those of the document without it.
C5_PageWithoutTextIsSkipped ==
    df_pdf # None =>
        /\ \A k \in 1..Len(ParsedPages) :
              ~HasText(ParsedPages[k]) =>
                 /\ Count([j \in 1..Len(PageWarnings) |-> PageWarnings[j].n], k) = 1
                 /\ df_pdf[1].rows =
                       parse_pdf(RemoveAt(ParsedPages, k), pdf_path,
                                 transaction_type).df.rows
        /\ \A j \in 1..Len(PageWarnings) :
              /\ PageWarnings[j].n \in 1..Len(ParsedPages)
              /\ ~HasText(ParsedPages[PageWarnings[j].n])

\* a document whose first page has no text and whose second page gave records
C5_Witness ==
    /\ df_pdf # None
    /\ Len(ParsedPages) >= 2
    /\ ~HasText(ParsedPages[1])
    /\ HasText(ParsedPages[2])
    /\ df_pdf[1].rows # <<>>
    /\ Len(PageWarnings) = 1

\* C6: the file written has the six columns Booking Date, Value Date,
\* Transaction ID, Code, Description, Amount, in this order, and one line
\* per record of the dataset returned, also when no record was found.
C6_PersistedColumns ==
    (pc = "Done" /\ output_csv) =>
        /\ csv # None
        /\ csv[1].header = <<"Booking Date", "Value Date", "Transaction ID",
                             "Code", "Description", "Amount">>
        /\ Len(csv[1].lines) = Len(transactions.rows)

\* C7 as claimed: a run returns the same dataset, records and order, as the
\* run before it on the same folder, whatever the order of the documents.
C7_SameDatasetAnyOrder ==
    (pc = "Done" /\ returned # None) =>
        transactions = returned[1].transactions

\* C7, amended: a run returns the same records, as a multiset, and the same
\* sequence of booking dates as the run before it on the same folder,
\* whatever the order of the documents; only records with equal booking
\* dates can change places.
C7_SameRecordsAndDates ==
    (pc = "Done" /\ returned # None) =>
        /\ transactions.columns = returned[1].transactions.columns
        /\ SameBag(transactions.rows, returned[1].transactions.rows)
        /\ BookingDates(transactions.rows)
              = BookingDates(returned[1].transactions.rows)

\* two runs that listed the documents in different orders and returned the
\* records in different orders
C7_Witness ==
    /\ pc = "Done"
    /\ returned # None
    /\ returned[1].listing # listing
    /\ transactions.rows # returned[1].transactions.rows
    /\ Len(all_dfs) >= 2

\* the frame is in the order sort_values leaves it in
IsSorted(df) ==
    \E o \in SortOrders(BookingDates(df.rows)) : o = [k \in 1..Len(o) |-> k]

Phases ==
    {<<"Idle", "Enumerating">>, <<"Done", "Enumerating">>,
     <<"Raised", "Enumerating">>,
     <<"Enumerating", "ExtractingDocuments">>,
     <<"ExtractingDocuments", "Sorting">>, <<"ExtractingDocuments", "Raised">>,
     <<"Sorting", "Persisting">>, <<"Sorting", "Done">>,
     <<"Persisting", "Done">>}

\* C8: the file is written once per run, in the step from Persisting to
\* Done, after every file of the listing has been handled and the dataset
\* is sorted; the phases follow Enumerating, ExtractingDocuments, Sorting,
\* Persisting, Done; a run that raises has written nothing.
C8_WrittenOnceAfterSort ==
    [][/\ pc' # pc => <<pc, pc'>> \in Phases
       /\ (pc = "Sorting" /\ pc' # pc) => (pc' = "Persisting") = output_csv
       /\ (csv' # csv \/ writes' > writes) =>
             /\ pc = "Persisting" /\ pc' = "Done"
             /\ writes = 0 /\ writes' = 1
             /\ idx > Len(listing)
             /\ IsSorted(transactions)
             /\ csv' = Some(ToCsv(transactions))
       /\ pc' = "Done" => writes' = (IF output_csv THEN 1 ELSE 0)
       /\ pc' \in {"Enumerating", "ExtractingDocuments", "Sorting", "Persisting",
                   "Raised"} => writes' = 0
      ]_vars

\* a run over two files that found records has written the file and returned
C8_Witness ==
    /\ pc = "Done"
    /\ output_csv
    /\ writes = 1
    /\ Len(listing) >= 2
    /\ Len(transactions.rows) >= 2
    /\ csv = Some(ToCsv(transactions))

C10_SelectionAndOrder ==
    /\ \A pattern \in Patterns, p \in PageIds :
          \A m \in 1..(Len(MatchTable[pattern][p]) - 1) :
              /\ MatchTable[pattern][p][m].start < MatchTable[pattern][p][m].end
              /\ MatchTable[pattern][p][m].end <= MatchTable[pattern][p][m + 1].start
    /\ (df_pdf # None /\ transaction_type = Some("CARD_TRANSACTION")) =>
          df_pdf[1].rows = <<>>
    /\ df_pdf # None =>
          LET rows == df_pdf[1].rows
              sites == Sites(ParsedPages, transaction_type)
              rank(site) == Cardinality({u \in sites : SiteBefore(u, site)}) + 1
          IN  /\ Len(rows) = Cardinality(sites)
              /\ \A site \in sites :
                    rows[rank(site)] = Record(SiteMatch(ParsedPages, site).groups)

\* without a filter, a document of two pages with records, on one of which
\* a transfer stands before a direct debit and a pattern matches twice
C10_Witness ==
    /\ df_pdf # None
    /\ transaction_type = None
    /\ Len(ParsedPages) = 2
    /\ \A k \in 1..2 : Sites(<<ParsedPages[k]>>, None) # {}
    /\ \E k \in 1..2 :
          /\ Len(MatchTable["DIRECT_DEBIT[0]"][ParsedPages[k]]) >= 2
          /\ \E a \in 1..Len(MatchTable["TRANSFER[0]"][ParsedPages[k]]),
                b \in 1..Len(MatchTable["DIRECT_DEBIT[0]"][ParsedPages[k]]) :
                MatchTable["TRANSFER[0]"][ParsedPages[k]][a].start
                    < MatchTable["DIRECT_DEBIT[0]"][ParsedPages[k]][b].start

====
